---- MODULE Spec2Model ----
(***************************************************************************)
(* aiofluent.sender.FluentSender: the emit pipeline (connection manager,   *)
(* send/retry pipeline, error-state tracker) as a state machine.           *)
(*                                                                         *)
(* Every action is one run of the event loop between two suspension        *)
(* points of a coroutine (lock acquisition, connection_factory, drain), or *)
(* one synchronous call (FluentSender.close).  Byte strings are sequences  *)
(* of small integers; None and b'' are both <<>> for _pendings (the code   *)
(* only ever tests its truth value).                                       *)
(***************************************************************************)
EXTENDS Integers, Sequences, FiniteSets, TLC

\* ---- bounds of the model
NumProcs == 2       \* concurrent emit tasks
MaxEmits == 3       \* emit calls in one behaviour
MaxTicks == 1       \* clock ticks in one behaviour
MaxBufmax == 2      \* largest configured bufmax
MaxRetry == 2       \* largest configured retry_timeout
MaxLimit == 1       \* largest configured error_count_limit
MaxUnpackable == 1  \* emit calls with a record msgpack cannot pack

Procs == 1..NumProcs
\* self._writer = None; also the free lock
NoWriter == 0
\* time.time() at construction: far larger than any retry_timeout
StartTime == MaxRetry + 1
\* the k-th emit call of a behaviour emits record k, or the record msgpack
\* cannot pack, which is record 0
Records(k) == {0, k}
ConnectOutcomes == {"ok", "timeout", "error"}
DrainOutcomes == {"ok", "transport", "internal"}
CloseOutcomes == {"ok", "RuntimeError", "OtherError"}

\* ---- Python numbers, for EventTime
\* An int is the sequence of its binary digits, least significant first,
\* without leading zeros (so 2^32 and beyond are at hand).  A float is an
\* IEEE 754 double that is finite and not negative: [m, e] stands for
\* m * 2^e, m an int of at most MantissaBits digits (or 2^MantissaBits).
MantissaBits == 53
\* 10 ** 9 is Thousand * Thousand * Thousand
Thousand == 1000
NanosPerSecond == Thousand * Thousand * Thousand
\* struct.pack(">II", ...): two unsigned fields of 32 bits, big-endian
FieldBits == 32
\* binary digits kept after the point by a division before it is rounded
GuardBits == 90
\* the arithmetic works on limbs of LimbBits binary digits
LimbBits == 15

RECURSIVE Pow2(_)
Pow2(k) == IF k = 0 THEN 1 ELSE 2 * Pow2(k - 1)
Base == Pow2(LimbBits)

RECURSIVE Bits(_)
\* the int of a small number
Bits(n) == IF n = 0 THEN <<>> ELSE <<n % 2>> \o Bits(n \div 2)

RECURSIVE Val(_)
\* the small number of a short int
Val(x) == IF x = <<>> THEN 0 ELSE Head(x) + 2 * Val(Tail(x))

Norm(x) ==
  LET ones == {i \in 1..Len(x) : x[i] = 1}
  IN IF ones = {} THEN <<>>
     ELSE SubSeq(x, 1, CHOOSE i \in ones : \A j \in ones : j <= i)

Limbs(x) ==
  [j \in 1..((Len(x) + LimbBits - 1) \div LimbBits) |->
     Val(SubSeq(x, LimbBits * (j - 1) + 1,
                IF LimbBits * j < Len(x) THEN LimbBits * j ELSE Len(x)))]
Unlimbs(l) ==
  Norm([i \in 1..(LimbBits * Len(l)) |->
          (l[(i - 1) \div LimbBits + 1] \div Pow2((i - 1) % LimbBits)) % 2])

\* x * 2^k and x \div 2^k
Shl(x, k) == IF x = <<>> THEN <<>> ELSE [i \in 1..k |-> 0] \o x
Shr(x, k) == SubSeq(x, k + 1, Len(x))
\* x % 2^k
Low(x, k) == Norm(SubSeq(x, 1, IF k < Len(x) THEN k ELSE Len(x)))

RECURSIVE AddC(_, _, _)
AddC(x, y, c) ==
  IF x = <<>> /\ y = <<>> THEN <<c>>
  ELSE LET a == IF x = <<>> THEN 0 ELSE Head(x)
           b == IF y = <<>> THEN 0 ELSE Head(y)
       IN <<(a + b + c) % Base>>
            \o AddC(IF x = <<>> THEN x ELSE Tail(x),
                    IF y = <<>> THEN y ELSE Tail(y), (a + b + c) \div Base)
Add(x, y) == Unlimbs(AddC(Limbs(x), Limbs(y), 0))

RECURSIVE SubB(_, _, _)
SubB(x, y, c) ==
  IF x = <<>> THEN <<>>
  ELSE LET b == IF y = <<>> THEN 0 ELSE Head(y)
           d == Head(x) - b - c
       IN <<d % Base>> \o SubB(Tail(x), IF y = <<>> THEN y ELSE Tail(y),
                               IF d < 0 THEN 1 ELSE 0)
\* x - y for x >= y
Sub(x, y) == Unlimbs(SubB(Limbs(x), Limbs(y), 0))

\* x < y
Less(x, y) ==
  IF Len(x) # Len(y) THEN Len(x) < Len(y)
  ELSE LET differ == {i \in 1..Len(x) : x[i] # y[i]}
       IN differ # {}
            /\ x[CHOOSE i \in differ : \A j \in differ : j <= i] = 0

RECURSIVE MulC(_, _, _)
MulC(x, c, carry) ==
  IF x = <<>> THEN <<carry>>
  ELSE <<(Head(x) * c + carry) % Base>>
         \o MulC(Tail(x), c, (Head(x) * c + carry) \div Base)
\* x * c for c < Base
Mul(x, c) == Unlimbs(MulC(Limbs(x), c, 0))
\* x * 10 ** 9
MulNanos(x) == Mul(Mul(Mul(x, Thousand), Thousand), Thousand)

RECURSIVE DivFrom(_, _, _, _, _)
\* long division, from limb i down, with quotient q and remainder r so far
DivFrom(x, c, i, q, r) ==
  IF i = 0 THEN [q |-> q, r |-> r]
  ELSE DivFrom(x, c, i - 1, <<(Base * r + x[i]) \div c>> \o q,
               (Base * r + x[i]) % c)
\* x \div c and x % c for c < Base
Div(x, c) ==
  LET d == DivFrom(Limbs(x), c, Len(Limbs(x)), <<>>, 0)
  IN [q |-> Unlimbs(d.q), r |-> d.r]
\* x \div 10 ** 9, and whether that is all of x / 10 ** 9
DivNanos(x) ==
  LET d1 == Div(x, Thousand)
      d2 == Div(d1.q, Thousand)
      d3 == Div(d2.q, Thousand)
  IN [q |-> d3.q, exact |-> d1.r = 0 /\ d2.r = 0 /\ d3.r = 0]

Float0 == [m |-> <<>>, e |-> 0]

\* the double nearest to m * 2^e (plus a little when sticky), ties to even
Round(m, e, sticky) ==
  IF Len(m) <= MantissaBits THEN [m |-> m, e |-> e]
  ELSE LET d     == Len(m) - MantissaBits
           keep  == Shr(m, d)
           rest  == sticky \/ \E i \in 1..(d - 1) : m[i] = 1
           up    == m[d] = 1 /\ (rest \/ keep[1] = 1)
       IN [m |-> IF up THEN Add(keep, <<1>>) ELSE keep, e |-> e + d]

\* int / 10 ** 9 (true division), and the float of a decimal literal
DivFloat(n) ==
  IF n = <<>> THEN Float0
  ELSE LET d == DivNanos(Shl(n, GuardBits))
       IN Round(d.q, -GuardBits, ~d.exact)

\* int(x) of a float
Floor(x) == IF x.e >= 0 THEN Shl(x.m, x.e) ELSE Shr(x.m, -x.e)
\* x % 1 of a float: exact
Mod1(x) == IF x.e >= 0 THEN Float0 ELSE [m |-> Low(x.m, -x.e), e |-> x.e]
\* float * 10 ** 9
MulFloat(x) == Round(MulNanos(x.m), x.e, FALSE)
\* int + float
AddFloat(n, x) ==
  IF x.e >= 0 THEN Round(Add(n, Shl(x.m, x.e)), 0, FALSE)
  ELSE Round(Add(Shl(n, -x.e), x.m), x.e, FALSE)
\* |x - y|, exactly, as m * 2^e
Distance(x, y) ==
  LET e0 == IF x.e < y.e THEN x.e ELSE y.e
      a  == Norm(Shl(x.m, x.e - e0))
      b  == Norm(Shl(y.m, y.e - e0))
  IN [m |-> IF Less(a, b) THEN Sub(b, a) ELSE Sub(a, b), e |-> e0]
\* d > 1e-9, for d = m * 2^e
MoreThanNano(d) ==
  IF d.e >= 0 THEN d.m # <<>>
  ELSE Less(Shl(<<1>>, -d.e), MulNanos(d.m))

\* EventTime.__new__: the data of the ExtType
Reverse(s) == [i \in 1..Len(s) |-> s[Len(s) + 1 - i]]
Field(x) == Reverse(x \o [i \in 1..(FieldBits - Len(x)) |-> 0])
EventTime(timestamp) ==
  LET seconds     == Floor(timestamp)
      nanoseconds == Floor(MulFloat(Mod1(timestamp)))
  IN IF Len(seconds) > FieldBits \/ Len(nanoseconds) > FieldBits
       THEN [packed |-> "struct.error", data |-> <<>>]
       ELSE [packed |-> "yes", data |-> Field(seconds) \o Field(nanoseconds)]

\* struct.unpack(">II", b)
unpack(b) ==
  [seconds     |-> Norm(Reverse(SubSeq(b, 1, FieldBits))),
   nanoseconds |-> Norm(Reverse(SubSeq(b, FieldBits + 1, 2 * FieldBits)))]

\* EventTime.from_bytes
from_bytes(b) ==
  AddFloat(unpack(b).seconds, DivFloat(unpack(b).nanoseconds))

VARIABLES
  \* configuration (FluentSender.__init__ arguments)
  bufmax, retry_timeout, error_count_limit, buffer_overflow_handler,
  \* sender fields
  pendings, writer, last_error, last_error_time, error_count,
  lockHolder, lockWaiters,
  \* environment: the clock, connections opened, connections close() has dropped
  now, connCount, closed,
  \* each emit task: position, the coalesced bytes_, its own packet, the writer
  \* it obtained, the except clause it is in
  pc, bytes_, packet, myWriter, failure,
  call,          \* which emit call of the behaviour the task runs
  \* history
  solo,          \* no other send was in flight during this send
  handled,       \* arguments the overflow handler was invoked with, in order
  last,          \* the send that returned most recently
  consec,        \* internal failures in a row on the current connection
  badConns,      \* connections of sends that returned False after a transport failure
  connectFailedAt, \* time.time() of the latest connect failure, 0 before any
  emits,         \* emit calls so far
  unpackable,    \* emit calls so far with a record msgpack cannot pack
  sent,          \* the payloads handed to _async_send, in call order
  written,       \* the bytes written by the sends that returned True, in order
  \* an EventTime, apart from any sender
  timestamp,     \* the float it is made from
  event_time,    \* EventTime(timestamp): how the call ended, and the data
  decoded        \* EventTime.from_bytes of that data, once it was called

senderVars ==
  <<bufmax, retry_timeout, error_count_limit, buffer_overflow_handler,
    pendings, writer, last_error, last_error_time, error_count,
    lockHolder, lockWaiters, now, connCount, closed,
    pc, bytes_, packet, myWriter, failure, call,
    solo, handled, last, consec, badConns, connectFailedAt,
    emits, unpackable, sent, written>>
vars == <<senderVars, timestamp, event_time, decoded>>

\* The whole state as one record, so that a handler's statements compose in
\* program order inside one action.
Cur ==
  [pendings |-> pendings, writer |-> writer, last_error |-> last_error,
   last_error_time |-> last_error_time, error_count |-> error_count,
   lockHolder |-> lockHolder, lockWaiters |-> lockWaiters,
   now |-> now, connCount |-> connCount, closed |-> closed,
   pc |-> pc, bytes_ |-> bytes_, packet |-> packet, myWriter |-> myWriter,
   failure |-> failure, call |-> call,
   solo |-> solo, handled |-> handled, last |-> last, consec |-> consec,
   badConns |-> badConns, connectFailedAt |-> connectFailedAt,
   emits |-> emits, unpackable |-> unpackable,
   sent |-> sent, written |-> written]

Becomes(W) ==
  /\ pendings' = W.pendings /\ writer' = W.writer /\ last_error' = W.last_error
  /\ last_error_time' = W.last_error_time /\ error_count' = W.error_count
  /\ lockHolder' = W.lockHolder /\ lockWaiters' = W.lockWaiters
  /\ now' = W.now /\ connCount' = W.connCount /\ closed' = W.closed
  /\ pc' = W.pc /\ bytes_' = W.bytes_ /\ packet' = W.packet
  /\ myWriter' = W.myWriter /\ failure' = W.failure /\ call' = W.call
  /\ solo' = W.solo /\ handled' = W.handled /\ last' = W.last
  /\ consec' = W.consec /\ badConns' = W.badConns
  /\ connectFailedAt' = W.connectFailedAt
  /\ emits' = W.emits /\ unpackable' = W.unpackable
  /\ sent' = W.sent /\ written' = W.written
  /\ UNCHANGED <<bufmax, retry_timeout, error_count_limit, buffer_overflow_handler>>
  /\ UNCHANGED <<timestamp, event_time, decoded>>

\* what is remembered of the send that returned last: which emit call it was,
\* the value emit returned, its packet, the pending buffer it started from,
\* whether it ran alone, the except clause it went through
NoSend ==
  [id |-> 0, ret |-> "NoCall", packet |-> <<>>, start |-> <<>>, solo |-> TRUE,
   failure |-> "none"]

\* no EventTime made yet, nothing decoded yet
NoEventTime == [packed |-> "no", data |-> <<>>]
NotDecoded == [done |-> FALSE, value |-> Float0]

\* FluentSender.__init__
SenderInit ==
  /\ bufmax \in 0..MaxBufmax
  /\ retry_timeout \in 0..MaxRetry
  /\ error_count_limit \in 0..MaxLimit
  /\ buffer_overflow_handler = TRUE
  /\ pendings = <<>> /\ writer = NoWriter
  /\ last_error = "None" /\ last_error_time = 0 /\ error_count = 0
  /\ lockHolder = NoWriter /\ lockWaiters = <<>>
  /\ now = StartTime /\ connCount = 0 /\ closed = {}
  /\ pc = [p \in Procs |-> "idle"]
  /\ call = [p \in Procs |-> 0]
  /\ bytes_ = [p \in Procs |-> <<>>]
  /\ packet = [p \in Procs |-> <<>>]
  /\ myWriter = [p \in Procs |-> NoWriter]
  /\ failure = [p \in Procs |-> "none"]
  /\ solo = [p \in Procs |-> TRUE]
  /\ handled = <<>>
  /\ last = NoSend
  /\ consec = 0 /\ badConns = {} /\ connectFailedAt = 0
  /\ emits = 0 /\ unpackable = 0
  /\ sent = <<>> /\ written = <<>>

\* a sender, and no EventTime in the making
Init ==
  /\ SenderInit
  /\ timestamp = Float0 /\ event_time = NoEventTime /\ decoded = NotDecoded

\* ---- FluentSender, statement by statement (W is the state so far)

\* _make_packet: msgpack.packb raises on record 0, any other record packs to
\* one byte; the diagnostic record of async_emit_with_time packs to <<0>>
Serializable(data) == data # 0
make_packet(data) == <<data>>
DiagPacket == make_packet(0)

\* last_error setter with err not None (which exception it is decides nothing)
SetLastError(W, err) ==
  [W EXCEPT !.last_error = "Exception", !.last_error_time = W.now]

\* _call_buffer_overflow_handler: the handler, when one is configured, gets
\* pending_events; whether it returns or raises, the call returns (the
\* exception is swallowed), so its outcome is no input of the model
call_buffer_overflow_handler(W, pending_events) ==
  IF buffer_overflow_handler
    THEN [W EXCEPT !.handled = Append(@, pending_events)]
    ELSE W

\* the test of clean
Overflows(pend) == pend # <<>> /\ Len(pend) > bufmax

\* the size of the buffer to store is tested at once
cleanProactive(W, b) ==
  IF Len(b) > bufmax
    THEN [call_buffer_overflow_handler(W, b) EXCEPT !.pendings = <<>>]
    ELSE [W EXCEPT !.pendings = b]

\* the handler is called and the buffer is kept
cleanKeepsBuffer(W, b) ==
  IF Overflows(W.pendings)
    THEN call_buffer_overflow_handler(W, W.pendings)
    ELSE [W EXCEPT !.pendings = b]

clean(W, b) ==
  IF Overflows(W.pendings)
    THEN [call_buffer_overflow_handler(W, W.pendings) EXCEPT !.pendings = <<>>]
    ELSE [W EXCEPT !.pendings = b]

\* close(): writer.close() returns, raises RuntimeError (swallowed) or raises
\* anything else, which leaves close() before the handle is cleared
\* writer.close() called without the test for a handle
CloseRaisesUnguarded(W, co) == W.writer = NoWriter \/ co = "OtherError"

CloseRaises(W, co) == W.writer # NoWriter /\ co = "OtherError"

\* the handle is cleared and the transport is not closed
closeForgetsTransport(W, co) ==
  IF W.writer = NoWriter \/ co = "OtherError" THEN W
  ELSE [W EXCEPT !.writer = NoWriter]

\* the transport is closed and the handle is kept
closeKeepsHandle(W, co) ==
  IF W.writer = NoWriter \/ co = "OtherError" THEN W
  ELSE [W EXCEPT !.closed = @ \cup {W.writer}]

close(W, co) ==
  IF W.writer = NoWriter \/ co = "OtherError" THEN W
  ELSE [W EXCEPT !.closed = @ \cup {W.writer}, !.writer = NoWriter]

\* asyncio.Lock: acquire() takes the lock at once only when it is unlocked and
\* nobody waits; release() wakes the first waiter, who is the next holder
\* no lock at all
LockAlwaysFree(W) == TRUE

LockIsFree(W) == W.lockHolder = NoWriter /\ W.lockWaiters = <<>>

\* the lock is never released
ReleaseKeepsLock(W) == W

Release(W) ==
  IF W.lockWaiters = <<>>
    THEN [W EXCEPT !.lockHolder = NoWriter]
    ELSE [W EXCEPT !.lockHolder = Head(W.lockWaiters), !.lockWaiters = Tail(W.lockWaiters)]

\* the pending buffer a send started from: bytes_ without its own packet
StartOf(W, p) == SubSeq(W.bytes_[p], 1, Len(W.bytes_[p]) - Len(W.packet[p]))

\* _async_send returns r to async_emit_with_time, which returns it to the caller
Return(W, p, r) ==
  [W EXCEPT !.pc[p] = "idle", !.bytes_[p] = <<>>, !.packet[p] = <<>>,
            !.myWriter[p] = NoWriter, !.failure[p] = "none", !.solo[p] = TRUE,
            !.call[p] = 0,
            !.last = [id |-> W.call[p], ret |-> r, packet |-> W.packet[p],
                      start |-> StartOf(W, p), solo |-> W.solo[p],
                      failure |-> W.failure[p]],
            !.consec = IF W.failure[p] = "internal" THEN @ + 1 ELSE 0,
            !.badConns = IF r = "False" /\ W.failure[p] = "transport"
                         THEN @ \cup {W.myWriter[p]} ELSE @,
            !.written = IF r = "True" THEN @ \o W.bytes_[p] ELSE @]

\* the pending buffer left out of what is sent
CoalesceDropsPending(pend, b) == b

\* the new payload put before the pending buffer
CoalescePrepend(pend, b) == IF pend # <<>> THEN b \o pend ELSE b

\* _async_send_internal, the buffering at its top
Coalesce(pend, b) == IF pend # <<>> THEN pend \o b ELSE b

\* the cooldown test with >= for >
InCooldownInclusive(W) == (W.last_error_time + retry_timeout) >= W.now

\* get_writer, the cooldown test
InCooldown(W) == (W.last_error_time + retry_timeout) > W.now

\* writer.write(bytes_), then the await of drain
Write(W, p, wr) == [W EXCEPT !.pc[p] = "drain", !.myWriter[p] = wr]

\* the refused send recorded as an error
NoConnectionRecordsError(W, p) ==
  Return(clean(SetLastError(W, "no connection"), W.bytes_[p]), p, "False")

\* writer is None: clean, return False
NoConnection(W, p) == Return(clean(W, W.bytes_[p]), p, "False")

\* get_writer once the lock is held
GetWriterLocked(W, p) ==
  IF W.writer # NoWriter THEN Write(Release(W), p, W.writer)
  ELSE IF InCooldown(W) THEN NoConnection(Release(W), p)
  ELSE [W EXCEPT !.pc[p] = "connecting"]

get_writer(W, p) ==
  IF LockIsFree(W)
    THEN GetWriterLocked([W EXCEPT !.lockHolder = p], p)
    ELSE [W EXCEPT !.lockWaiters = Append(@, p), !.pc[p] = "lock_get"]

\* self.close() under the lock, then return False; an exception out of close()
\* leaves _async_send_internal and _async_send returns None
CloseAndReturn(W, p, co) ==
  Return(Release(close(W, co)), p, IF CloseRaises(W, co) THEN "None" ELSE "False")

LockedClose(W, p, co) ==
  IF LockIsFree(W)
    THEN CloseAndReturn([W EXCEPT !.lockHolder = p], p, co)
    ELSE [W EXCEPT !.lockWaiters = Append(@, p), !.pc[p] = "lock_close"]

\* except (socket.error, TimeoutError, CancelledError, OSError, BlockingIOError)
TransportFailure(W, p, co) ==
  LockedClose(clean(SetLastError([W EXCEPT !.failure[p] = "transport"], "transport"),
                    W.bytes_[p]), p, co)

\* except Exception
InternalFailure(W, p, co) ==
  LET W1 == [W EXCEPT !.failure[p] = "internal", !.error_count = @ + 1]
      W2 == clean(SetLastError(W1, "internal"), W.bytes_[p])
  IN IF W2.error_count > error_count_limit
       THEN LockedClose(W2, p, co)
       ELSE Return(W2, p, "False")

\* _async_send(bytes_) up to its first suspension: the buffering of
\* _async_send_internal, then get_writer
async_send(W, p, pk) ==
  LET b  == Coalesce(W.pendings, pk)
      W1 == [W EXCEPT !.pendings = IF @ # <<>> THEN b ELSE @,
                      !.bytes_[p] = b, !.packet[p] = pk,
                      !.call[p] = W.emits + 1, !.emits = @ + 1,
                      !.sent = Append(@, pk),
                      !.solo = [q \in Procs |->
                                  IF q = p THEN \A r \in Procs \ {p} : W.pc[r] = "idle"
                                  ELSE IF W.pc[q] # "idle" THEN FALSE ELSE @[q]]]
  IN get_writer(W1, p)

\* async_emit_with_time(label, timestamp, data): _make_packet, with the
\* diagnostic packet when packing raises, then _async_send
async_emit_with_time(W, p, data) ==
  IF Serializable(data)
    THEN async_send(W, p, make_packet(data))
    ELSE async_send([SetLastError(W, "serialization") EXCEPT !.unpackable = @ + 1],
                    p, DiagPacket)

\* ---- actions

\* the application awaits async_emit_with_time in a new task
Emit(p, data) ==
  /\ pc[p] = "idle"
  /\ \A q \in Procs : pc[q] = "idle" => p <= q    \* a new task takes the first free slot
  /\ emits < MaxEmits
  /\ ~Serializable(data) => unpackable < MaxUnpackable
  /\ Becomes(async_emit_with_time(Cur, p, data))

\* the lock is granted to a task waiting in get_writer
LockGrantedGet(p) ==
  /\ pc[p] = "lock_get"
  /\ lockHolder = p
  /\ Becomes(GetWriterLocked(Cur, p))

\* connection_factory returns; get_writer and, with a writer, write and drain
ConnectDone(p, outcome) ==
  /\ pc[p] = "connecting"
  /\ IF outcome = "ok"
       THEN LET W1 == [Cur EXCEPT !.connCount = @ + 1, !.writer = connCount + 1,
                                  !.error_count = 0, !.consec = 0]
            IN Becomes(Write(Release(W1), p, W1.writer))
       ELSE Becomes(NoConnection(
              Release([SetLastError(Cur, outcome) EXCEPT !.connectFailedAt = now]), p))

\* wait_for(writer.drain(), timeout) completes, or write or drain raised
DrainDone(p, outcome, co) ==
  /\ pc[p] = "drain"
  /\ CASE outcome = "ok" ->
            Becomes(Return([Cur EXCEPT !.pendings = <<>>, !.last_error_time = 0], p, "True"))
       [] outcome = "transport" -> Becomes(TransportFailure(Cur, p, co))
       [] outcome = "internal" -> Becomes(InternalFailure(Cur, p, co))

\* the lock is granted to a task waiting to close the connection
LockGrantedClose(p, co) ==
  /\ pc[p] = "lock_close"
  /\ lockHolder = p
  /\ Becomes(CloseAndReturn(Cur, p, co))

\* the application calls FluentSender.close()
UserClose(co) ==
  /\ Becomes(close(Cur, co))

\* time passes
Tick ==
  /\ now < StartTime + MaxTicks
  /\ Becomes([Cur EXCEPT !.now = @ + 1])

Next ==
  \/ \E p \in Procs, data \in Records(emits + 1) : Emit(p, data)
  \/ \E p \in Procs : LockGrantedGet(p)
  \/ \E p \in Procs, o \in ConnectOutcomes : ConnectDone(p, o)
  \/ \E p \in Procs, o \in DrainOutcomes, co \in CloseOutcomes :
       DrainDone(p, o, co)
  \/ \E p \in Procs, co \in CloseOutcomes : LockGrantedClose(p, co)
  \/ \E co \in CloseOutcomes : UserClose(co)
  \/ Tick

Spec == Init /\ [][Next]_vars

\* The event loop runs every task that is ready: a connect and a drain end
\* (wait_for bounds both by _timeout), and a task the lock was handed to runs.
Progress(p) ==
  \/ LockGrantedGet(p)
  \/ \E o \in ConnectOutcomes : ConnectDone(p, o)
  \/ \E o \in DrainOutcomes, co \in CloseOutcomes :
       DrainDone(p, o, co)
  \/ \E co \in CloseOutcomes : LockGrantedClose(p, co)

\* one sender, with the largest bufmax, retry_timeout and error_count_limit
LiveInit ==
  /\ Init
  /\ bufmax = MaxBufmax /\ retry_timeout = MaxRetry /\ error_count_limit = MaxLimit

LiveSpec == LiveInit /\ [][Next]_vars /\ \A p \in Procs : WF_vars(Progress(p))

\* ---- what the claims speak of

\* the task that the next emit call runs in
Emitter == CHOOSE p \in Procs : pc[p] = "idle" /\ \A q \in Procs : pc[q] = "idle" => p <= q
\* this step is an emit call
EmitStep == emits' = emits + 1
\* a send returns in this step
ReturnStep == last'.id # last.id
\* get_writer runs its body in this step, in task p
AcquireStep(p) ==
  \/ EmitStep /\ p = Emitter /\ LockIsFree(Cur)
  \/ pc[p] = "lock_get" /\ pc'[p] # "lock_get"
\* connections opened and not dropped by close()
OpenConns == (1..connCount) \ closed

\* ---- C1: send and emit return exactly True or False, whatever the outcome
\* of connecting, writing, flushing, closing and the overflow handler.
\* The code returns None when close() raises out of an except clause.
C1_EmitReturnsBoolean == last.ret \in {"NoCall", "True", "False"}

\* _last_error_time when get_writer reads it in this step: an emit whose
\* record does not serialize has recorded that error just before
LastErrorTime == IF unpackable' # unpackable THEN now ELSE last_error_time

\* a send that returned without success and ran alone from call to return
FailedSolo(r) == r.id # 0 /\ r.ret # "True" /\ r.solo

\* ---- C2 as stated: after a connect failure at time T, whatever other sends
\* come in between, an acquire before T + retry_timeout attempts no connection
\* and its emit returns False with last_error set, and an acquire at or after
\* T + retry_timeout that finds no connection attempts one.
C2_CooldownAnyInterleaving ==
  [][\A p \in Procs :
       (AcquireStep(p) /\ connectFailedAt # 0) =>
         /\ now < connectFailedAt + retry_timeout =>
              /\ pc'[p] # "connecting" /\ connCount' = connCount
              /\ ReturnStep /\ last'.ret = "False" /\ last_error' # "None"
         /\ (now >= connectFailedAt + retry_timeout /\ writer = NoWriter) =>
              pc'[p] = "connecting"]_vars

\* ---- C2: after a connect failure at time T, an acquire that finds no
\* connection attempts none before L + retry_timeout, its emit returning
\* False with last_error set, and attempts one at or after L + retry_timeout,
\* where L is the time of the last recorded error: T when no send succeeded
\* and no error was recorded since, 0 after a successful send, the time of
\* a later error otherwise.
C2_Cooldown ==
  [][\A p \in Procs :
       (AcquireStep(p) /\ connectFailedAt # 0 /\ writer = NoWriter) =>
         IF now < LastErrorTime + retry_timeout
           THEN /\ pc'[p] # "connecting" /\ connCount' = connCount
                /\ ReturnStep /\ last'.ret = "False" /\ last_error' # "None"
           ELSE pc'[p] = "connecting"]_vars

\* the first emit failed to connect, the second was refused in the cooldown,
\* the third comes when the cooldown is over and connects
C2_Witness ==
  /\ retry_timeout = 1 /\ connectFailedAt = StartTime /\ now = StartTime + 1
  /\ last_error_time = connectFailedAt /\ connCount = 0 /\ unpackable = 0
  /\ emits = 3 /\ last.id = 2 /\ last.ret = "False"
  /\ pc[1] = "connecting"

\* ---- C3 as stated: for any bufmax, two failed sends in a row of A then B,
\* each alone, the first from an empty buffer, leave the buffer A ++ B.
C3_CoalesceAnyBufmax ==
  [][(ReturnStep /\ FailedSolo(last) /\ FailedSolo(last') /\ last.start = <<>>)
       => pendings' = last.packet \o last'.packet]_vars

\* ---- C3: two failed sends in a row of A then B, each alone, the first from
\* an empty buffer: B is sent after A in one buffer; the buffer left is
\* A ++ B when that is at most bufmax long, else the overflow handler gets
\* A ++ B and the buffer is left empty.
C3_Coalesce ==
  [][(ReturnStep /\ FailedSolo(last) /\ FailedSolo(last') /\ last.start = <<>>)
       => /\ last'.start = last.packet
          /\ IF Len(last.packet \o last'.packet) <= bufmax
               THEN pendings' = last.packet \o last'.packet /\ handled' = handled
               ELSE /\ pendings' = <<>>
                    /\ handled' = Append(handled, last.packet \o last'.packet)]_vars

\* records 1 and 2 both failed and bufmax holds the two of them
C3_Witness ==
  /\ pendings = <<1, 2>> /\ last.id = 2 /\ FailedSolo(last)
  /\ last.start = <<1>> /\ last.packet = <<2>> /\ handled = <<>>

\* ---- C4 as stated: the buffer is longer than bufmax when a send starts and
\* the send fails: the handler is called once with the buffer as it was
\* before the send, and the buffer is empty afterwards.
C4_OverflowGetsOldBuffer ==
  [][(ReturnStep /\ FailedSolo(last') /\ Len(last'.start) > bufmax)
       => handled' = Append(handled, last'.start) /\ pendings' = <<>>]_vars

\* ---- C4: the buffer is longer than bufmax when a send starts, the send
\* runs alone and fails: the handler is called once with the buffer followed
\* by the new payload, and the buffer is empty afterwards.
C4_Overflow ==
  [][(ReturnStep /\ FailedSolo(last') /\ Len(last'.start) > bufmax)
       => /\ handled' = Append(handled, last'.start \o last'.packet)
          /\ pendings' = <<>>]_vars

\* bufmax 0: record 1 stayed in the buffer, the send of record 2 failed
C4_Witness ==
  /\ bufmax = 0 /\ last.id = 2 /\ FailedSolo(last) /\ last.start = <<1>>
  /\ handled = << <<1, 2>> >> /\ pendings = <<>>

\* ---- C5: a send that runs alone and fails with an internal exception on
\* the open connection leaves it open while the run of consecutive internal failures
\* is at most error_count_limit long, and closes it when the run reaches
\* error_count_limit + 1, whatever successes came before the run.
\* The code counts the failures since the connection was opened, not the run.
C5_ErrorCountThreshold ==
  [][\A p \in Procs :
       (/\ pc[p] # "idle" /\ pc'[p] = "idle" /\ last'.failure = "internal"
        /\ last'.solo /\ writer # NoWriter /\ myWriter[p] = writer) =>
         /\ consec' <= error_count_limit => writer' = writer
         /\ consec' = error_count_limit + 1 =>
              (writer' = NoWriter \/ last'.ret = "None")]_vars

\* ---- C6: an emit of a record that cannot be serialized does what a send
\* of the diagnostic packet would do from the same state: same connection
\* attempt, same return.
\* The code records the serialization error with the current time first,
\* which starts the reconnect cooldown.
C6_UnpackableSendsDiagnostic ==
  [][(EmitStep /\ unpackable' # unpackable) =>
       LET V == async_send(Cur, Emitter, DiagPacket)
       IN /\ pc' = V.pc
          /\ last'.id = V.last.id /\ last'.ret = V.last.ret]_vars

C8_OneConnection ==
  /\ Cardinality({p \in Procs : pc[p] = "connecting"}) <= 1
  /\ \A p \in Procs : pc[p] = "connecting" => lockHolder = p /\ writer = NoWriter
  /\ OpenConns \subseteq {writer}
  /\ Cardinality(OpenConns) <= 1

\* two emits at once: one connects, the other waits for the lock
C8_Witness == \E p, q \in Procs : pc[p] = "connecting" /\ pc[q] = "lock_get"

C10_EmitReturns == \A p \in Procs : (pc[p] # "idle") ~> (pc[p] = "idle")

\* a task waits for the lock to close the connection while another connects
C10_Witness == \E p, q \in Procs : pc[p] = "connecting" /\ pc[q] = "lock_close"

\* ---- EventTime on its own: made from a float, then decoded
\* seconds of the timestamps tried: 0, 5, 1700000000, 2^32 - 1
Seconds ==
  {<<>>, Bits(5), Bits(1700000000), [i \in 1..FieldBits |-> 1]}
\* the nine decimals after the point of the timestamps tried
Nanoseconds ==
  {0, 1, 3, 7, 999, 1000000, 123456789, 290000000, 500000000, 749077685,
   987654321, 999999000, 999999998, 999999999}
\* the floats of the decimal literals s.nnnnnnnnn
Timestamps ==
  {DivFloat(Add(MulNanos(s), Bits(n))) : s \in Seconds, n \in Nanoseconds}

TimeInit ==
  /\ SenderInit
  /\ bufmax = MaxBufmax /\ retry_timeout = MaxRetry /\ error_count_limit = MaxLimit
  /\ timestamp \in Timestamps
  /\ event_time = NoEventTime /\ decoded = NotDecoded

\* EventTime(timestamp)
NewEventTime ==
  /\ event_time = NoEventTime
  /\ event_time' = EventTime(timestamp)
  /\ UNCHANGED <<senderVars, timestamp, decoded>>

\* EventTime.from_bytes(data) on the data of the EventTime made
FromBytes ==
  /\ event_time.packed = "yes"
  /\ ~decoded.done
  /\ decoded' = [done |-> TRUE, value |-> from_bytes(event_time.data)]
  /\ UNCHANGED <<senderVars, timestamp, event_time>>

TimeNext == NewEventTime \/ FromBytes

TimeSpec == TimeInit /\ [][TimeNext]_vars

\* floor(fractional part * 1e9) of a float, exactly
FloorNanos(x) == Floor([m |-> MulNanos(Mod1(x).m), e |-> Mod1(x).e])

\* ---- C11: for every timestamp t with 0 <= t < 2^32 given with nine
\* decimals, decoding the 8 bytes made of t gives t to within 1e-9, and the
\* bytes hold seconds = floor(t) and nanoseconds = floor(fractional part of
\* t * 1e9), which is below 10^9.
C11_RoundTrip ==
  decoded.done =>
    /\ ~MoreThanNano(Distance(decoded.value, timestamp))
    /\ unpack(event_time.data).seconds = Floor(timestamp)
    /\ unpack(event_time.data).nanoseconds = FloorNanos(timestamp)
    /\ Less(unpack(event_time.data).nanoseconds, Bits(NanosPerSecond))

\* ---- C12: in every reachable state last_error_time is 0 exactly when
\* last_error is None, also after a successful send that follows a failure.
\* The code's success path resets _last_error_time alone.
C12_ErrorTimeIffError == (last_error_time = 0) <=> (last_error = "None")

\* ---- C13: error_count is 0 right after every send that returned True
\* (stated for the sends that ran alone), and it grows only in a send that
\* fails with an internal exception.
\* The code resets it when a connection is opened, not on success.
C13_ErrorCount ==
  [][/\ (ReturnStep /\ last'.ret = "True" /\ last'.solo) => error_count' = 0
     /\ error_count' > error_count =>
          /\ error_count' = error_count + 1
          /\ \E p \in Procs :
               /\ pc[p] = "drain"
               /\ \/ pc'[p] = "lock_close" /\ failure'[p] = "internal"
                  \/ pc'[p] = "idle" /\ last'.failure = "internal"]_vars

\* ---- C15: no send closes the connection while another send is between
\* obtaining it from get_writer and the end of its drain.
\* The lock is released before the write, so a failing send closes the
\* connection another send is draining.
C15_NoCloseMidUse ==
  [][(writer # NoWriter /\ writer' = NoWriter /\ pc' # pc) =>
       \A q \in Procs :
         (pc[q] = "drain" /\ pc'[q] = "drain") => myWriter[q] # writer]_vars

\* ---- C16: when the pending buffer is longer than bufmax as a send starts,
\* the buffer is empty when that send returns.
\* A concurrent send that fails stores its own stale copy of the buffer.
C16_OverCapEmptied ==
  [][(ReturnStep /\ Len(last'.start) > bufmax) => pendings' = <<>>]_vars

\* ---- sequences of payloads

RECURSIVE Flat(_)
\* the concatenation of a sequence of byte strings
Flat(ss) == IF ss = <<>> THEN <<>> ELSE Head(ss) \o Flat(Tail(ss))

RECURSIVE IsShuffle(_, _, _)
\* s is a and b interleaved, each in its own order
IsShuffle(s, a, b) ==
  IF s = <<>> THEN a = <<>> /\ b = <<>>
  ELSE \/ a # <<>> /\ Head(a) = Head(s) /\ IsShuffle(Tail(s), Tail(a), b)
       \/ b # <<>> /\ Head(b) = Head(s) /\ IsShuffle(Tail(s), a, Tail(b))

Range(s) == {s[i] : i \in DOMAIN s}

\* no send is in flight
AllIdle == \A p \in Procs : pc[p] = "idle"

\* ---- sequential callers: every emit is awaited before the next is made
SeqEmit(p, data) == AllIdle /\ Emit(p, data)

SeqNext ==
  \/ \E p \in Procs, data \in Records(emits + 1) : SeqEmit(p, data)
  \/ \E p \in Procs, o \in ConnectOutcomes : ConnectDone(p, o)
  \/ \E p \in Procs, o \in DrainOutcomes, co \in CloseOutcomes : DrainDone(p, o, co)
  \/ \E co \in CloseOutcomes : UserClose(co)
  \/ Tick

SeqSpec == Init /\ [][SeqNext]_vars

\* ---- C14: with sequential emits, every send goes on with the pending
\* buffer followed by its payload and writes that; a send that returns True
\* has written it, leaves the buffer empty and last_error_time 0; and between
\* sends the payloads handed to send are, in emission order, those written
\* and those given to the overflow handler, followed by the pending buffer.
C14_SequentialOrder ==
  /\ [](AllIdle =>
          LET all == Flat(sent)
              n   == Len(all) - Len(pendings)
          IN /\ n >= 0
             /\ SubSeq(all, n + 1, Len(all)) = pendings
             /\ IsShuffle(SubSeq(all, 1, n), written, Flat(handled)))
  /\ [][/\ EmitStep =>
             \A p \in Procs :
               pc'[p] # "idle" => bytes_'[p] = pendings \o sent'[Len(sent')]
        /\ \A p \in Procs :
             (pc[p] = "drain" /\ ReturnStep /\ last'.ret = "True") =>
               /\ written' = written \o bytes_[p]
               /\ pendings' = <<>> /\ last_error_time' = 0]_vars

\* record 1 stayed in the buffer, the send of record 2 wrote both
C14_Witness ==
  /\ sent = << <<1>>, <<2>> >> /\ written = <<1, 2>> /\ last.id = 2
  /\ last.ret = "True" /\ last.start = <<1>> /\ pendings = <<>> /\ AllIdle

\* ---- C17 as stated: a failed send whose coalesced payload is the first to
\* be longer than bufmax keeps it as the pending buffer and does not invoke
\* the handler; the handler is invoked by a failed send only when the buffer
\* was already longer than bufmax as the send started.
C17_LazyOverflow ==
  [][/\ (/\ ReturnStep /\ FailedSolo(last') /\ Len(last'.start) <= bufmax
         /\ Len(last'.start \o last'.packet) > bufmax)
          => pendings' = last'.start \o last'.packet /\ handled' = handled
     /\ (ReturnStep /\ FailedSolo(last') /\ handled' # handled)
          => Len(last'.start) > bufmax]_vars

\* ---- C17: a failed send that runs alone and whose coalesced payload is
\* the first to be longer than bufmax keeps it as the pending buffer without
\* invoking the handler when it started from an empty buffer; when it
\* started from a non-empty one the handler is invoked at once with the
\* coalesced payload and the buffer is left empty.  The handler is invoked
\* by a failed send only when that send started from a non-empty buffer and
\* its coalesced payload is longer than bufmax.
C17_LazyWhenEmpty ==
  [][/\ (/\ ReturnStep /\ FailedSolo(last') /\ Len(last'.start) <= bufmax
         /\ Len(last'.start \o last'.packet) > bufmax)
          => IF last'.start = <<>>
               THEN pendings' = last'.packet /\ handled' = handled
               ELSE /\ pendings' = <<>>
                    /\ handled' = Append(handled, last'.start \o last'.packet)
     /\ (ReturnStep /\ FailedSolo(last') /\ handled' # handled)
          => /\ last'.start # <<>>
             /\ Len(last'.start \o last'.packet) > bufmax]_vars

\* bufmax 1: record 1 was within the cap, the failed send of record 2 makes
\* the buffer two long and the handler gets it at once
C17_Witness ==
  /\ bufmax = 1 /\ last.id = 2 /\ FailedSolo(last) /\ last.start = <<1>>
  /\ last.packet = <<2>> /\ handled = << <<1, 2>> >> /\ pendings = <<>>

\* ---- C18: when no send is in flight, every payload handed to send was
\* written by a send that returned True, or is in the pending buffer, or was
\* in an argument of the overflow handler.
\* A failed send stores its own coalesced copy over what a concurrent
\* failed send stored, or drops its payload with the buffer it discards.
C18_NoSilentLoss ==
  AllIdle =>
    \A i \in DOMAIN sent : \A j \in DOMAIN sent[i] :
      sent[i][j] \in Range(written) \cup Range(pendings) \cup Range(Flat(handled))

\* ---- C19: a send that finds no connection and the cooldown running
\* returns False and leaves last_error, last_error_time, error_count and the
\* handle as they were when the send began; no connection is opened or
\* closed.
C19_BlockedSendFrame ==
  [][\A p \in Procs :
       (AcquireStep(p) /\ writer = NoWriter
          /\ now < LastErrorTime + retry_timeout) =>
         /\ pc'[p] = "idle" /\ last'.ret = "False"
         /\ last_error_time' = LastErrorTime
         /\ last_error' = IF unpackable' # unpackable THEN "Exception" ELSE last_error
         /\ error_count' = error_count
         /\ writer' = NoWriter /\ connCount' = connCount /\ closed' = closed]_vars

\* the first emit failed to connect, the second was refused in the cooldown
\* and both payloads are pending
C19_Witness ==
  /\ retry_timeout = 2 /\ now = StartTime + 1 /\ emits = 2 /\ AllIdle
  /\ connCount = 0 /\ unpackable = 0 /\ last_error_time = StartTime
  /\ last.id = 2 /\ last.ret = "False" /\ pendings = <<1, 2>>

\* ---- C20: every connection the factory returned is the current handle or
\* close() has closed it; the handle is set only while absent, to the new
\* connection, and cleared only by a close() that closes it.
C20_NoLeak ==
  /\ [](\A c \in 1..connCount : c = writer \/ c \in closed)
  /\ [][/\ connCount' # connCount =>
             connCount' = connCount + 1 /\ writer = NoWriter /\ writer' = connCount'
        /\ writer' # writer =>
             \/ writer = NoWriter /\ writer' = connCount' /\ connCount' = connCount + 1
             \/ writer' = NoWriter /\ writer \notin closed /\ writer \in closed']_vars

\* the first connection was closed and a second one is open
C20_Witness == connCount = 2 /\ closed = {1} /\ writer = 2

====
